---- MODULE Spec2Model ----
(***************************************************************************)
(* Team snapshot memory of the Blackout Rugby agent                        *)
(* (tools/br_team_memory.py): SaveTeamSnapshot, LoadTeamSnapshot,          *)
(* CompareTeamSnapshots and ReportTeamChanges over the snapshot directory. *)
(*                                                                         *)
(* Python values are tagged tuples: None, IntV(n), StrV(s), BoolV(b),      *)
(* ListV(<<v1, ...>>) and DictV(<< <<k1, v1>>, ... >>).  A dict is its     *)
(* sequence of (key, value) pairs in insertion order, keys unique, as      *)
(* Python iterates it and as json.dump writes it.                          *)
(***************************************************************************)
EXTENDS Integers, Sequences, FiniteSets, TLC

VARIABLES
    disk,       \* the snapshot directory: file name -> file content (tokens)
    call,       \* the last tool call: its operation, arguments and outcome, and
                \* (history) how the last save to its team id had ended before it
    lastSave,   \* history: per team id, how the last save to it ended
    everSaved,  \* history: the team ids some save has completed for
    saving      \* the saves under way step by step: per writer, where it is in
                \* forward, the collection it writes and its file position

vars == <<disk, call, lastSave, everSaved, saving>>

----------------------------------------------------------------------------
(* Bounds of the model *)

\* longest collection built from the core records
MaxLen == 3
\* attribute and skill values range over 1..MaxVal
MaxVal == 2
\* a failing write leaves at most this many tokens in the file
MaxPartial == 2

----------------------------------------------------------------------------
(* Python values *)

None == <<"none">>
IntV(n) == <<"int", n>>
StrV(s) == <<"str", s>>
BoolV(b) == <<"bool", b>>
ListV(s) == <<"list", s>>
DictV(pairs) == <<"dict", pairs>>

EmptyDict == DictV(<<>>)
EmptyList == ListV(<<>>)

Items(l) == l[2]
Pairs(d) == d[2]

\* k in d
HasKey(d, k) == \E i \in 1..Len(Pairs(d)) : Pairs(d)[i][1] = k

\* d[k], for a key d has
Lookup(d, k) == Pairs(d)[CHOOSE i \in 1..Len(Pairs(d)) : Pairs(d)[i][1] = k][2]

\* d.get(k, default)
GetOr(d, k, default) == IF HasKey(d, k) THEN Lookup(d, k) ELSE default

\* d.get(k)
Get(d, k) == GetOr(d, k, None)

\* d[k] = v: an existing key keeps its place, a new key goes last
SetItem(d, k, v) ==
    IF HasKey(d, k)
    THEN DictV([i \in 1..Len(Pairs(d)) |->
                   IF Pairs(d)[i][1] = k THEN <<k, v>> ELSE Pairs(d)[i]])
    ELSE DictV(Append(Pairs(d), <<k, v>>))

\* the keys of d in iteration order
KeysOf(d) == [i \in 1..Len(Pairs(d)) |-> Pairs(d)[i][1]]

\* the elements of a sequence, as a set
Range(s) == {s[i] : i \in 1..Len(s)}

----------------------------------------------------------------------------
(* json.dump: the file content as a sequence of tokens.  The layout        *)
(* (indent=2), commas and colons carry no information and are left out.    *)

LBrack == <<"[">>
RBrack == <<"]">>
LBrace == <<"{">>
RBrace == <<"}">>
Null == <<"null">>
KeyTok(k) == <<"key", k>>

RECURSIVE SerValue(_)
RECURSIVE SerItems(_, _)
RECURSIVE SerPairs(_, _)

\* the tokens of the list elements s[i..]
SerItems(s, i) ==
    IF i > Len(s) THEN <<>> ELSE SerValue(s[i]) \o SerItems(s, i + 1)

\* the tokens of the dict members p[i..]
SerPairs(p, i) ==
    IF i > Len(p) THEN <<>>
    ELSE <<KeyTok(p[i][1])>> \o SerValue(p[i][2]) \o SerPairs(p, i + 1)

\* SerValue writing None as the text of str(None)
SerValueStr(v) ==
    CASE v[1] = "list" -> <<LBrack>> \o SerItems(Items(v), 1) \o <<RBrack>>
      [] v[1] = "dict" -> <<LBrace>> \o SerPairs(Pairs(v), 1) \o <<RBrace>>
      [] v[1] = "none" -> <<StrV("None")>>
      [] OTHER -> <<v>>

SerValue(v) ==
    CASE v[1] = "list" -> <<LBrack>> \o SerItems(Items(v), 1) \o <<RBrack>>
      [] v[1] = "dict" -> <<LBrace>> \o SerPairs(Pairs(v), 1) \o <<RBrace>>
      [] v[1] = "none" -> <<Null>>
      [] v[1] = "bool" -> <<v>>
      [] v[1] = "int" -> <<v>>
      [] v[1] = "str" -> <<v>>

\* json.dump(players_data, f): every token of the document, in order
JsonDump(v) == SerValue(v)

----------------------------------------------------------------------------
(* json.load: a recursive-descent parse of the tokens.  A parse gives      *)
(* [ok |-> TRUE, val |-> v, next |-> j] or ParseFail (JSONDecodeError).    *)

ParseFail == [ok |-> FALSE, val |-> None, next |-> 0]
ParseOk(v, j) == [ok |-> TRUE, val |-> v, next |-> j]

RECURSIVE ParseValue(_, _)
RECURSIVE ParseItems(_, _, _)
RECURSIVE ParseMembers(_, _, _)

\* the elements of a list from token i, acc the elements read so far
ParseItems(toks, i, acc) ==
    IF i > Len(toks) THEN ParseFail
    ELSE IF toks[i] = RBrack THEN ParseOk(ListV(acc), i + 1)
    ELSE LET r == ParseValue(toks, i)
         IN  IF r.ok THEN ParseItems(toks, r.next, Append(acc, r.val))
             ELSE ParseFail

\* the members of an object from token i, acc the dict read so far
ParseMembers(toks, i, acc) ==
    IF i > Len(toks) THEN ParseFail
    ELSE IF toks[i] = RBrace THEN ParseOk(acc, i + 1)
    ELSE IF toks[i][1] # "key" THEN ParseFail
    ELSE LET r == ParseValue(toks, i + 1)
         IN  IF r.ok THEN ParseMembers(toks, r.next, SetItem(acc, toks[i][2], r.val))
             ELSE ParseFail

ParseValue(toks, i) ==
    IF i > Len(toks) THEN ParseFail
    ELSE CASE toks[i] = LBrack -> ParseItems(toks, i + 1, <<>>)
           [] toks[i] = LBrace -> ParseMembers(toks, i + 1, EmptyDict)
           [] toks[i] = Null -> ParseOk(None, i + 1)
           [] toks[i][1] \in {"int", "str", "bool"} -> ParseOk(toks[i], i + 1)
           [] OTHER -> ParseFail

\* json.load(f): the whole file must be one value
JsonLoad(toks) ==
    LET r == ParseValue(toks, 1)
    IN  IF r.ok /\ r.next = Len(toks) + 1 THEN r ELSE ParseFail

----------------------------------------------------------------------------
(* The snapshot directory *)

TeamIds == {1, 2}

\* Filename without the team id in the name
FilenameShared(team_id) == <<"./memory/team_snapshots", "team_", ".json">>

\* os.path.join(SNAPSHOT_DIR, f"team_{team_id}.json")
Filename(team_id) == <<"./memory/team_snapshots", "team_", team_id, ".json">>

\* os.path.exists(filename)
Exists(d, filename) == filename \in DOMAIN d

\* the directory with `content` as the whole content of `filename`
WriteFile(d, filename, content) ==
    [f \in DOMAIN d \cup {filename} |-> IF f = filename THEN content ELSE d[f]]

\* the first k elements of a sequence
Prefix(s, k) == SubSeq(s, 1, k)

\* what a call gives its caller
Return(v) == <<"return", v>>
Raise(e) == <<"raise", e>>

\* what the file system does to a call: nothing, a failing open, or a write
\* that fails after `written` tokens
EnvOk == [fail |-> "none", written |-> 0]
EnvOpenFails == [fail |-> "open", written |-> 0]
EnvWriteFails(k) == [fail |-> "write", written |-> k]

\* history of the saves to one team id
NeverSaved == <<"never">>
SaveFailed == <<"failed">>
SavedOk(players_data) == <<"saved", players_data>>

\* the callers that save at the same time, and a caller not in forward
Writers == {1, 2}
Idle == [pc |-> "idle", arg |-> None, pos |-> 0]

----------------------------------------------------------------------------
(* SaveTeamSnapshot.forward *)

\* SavedDisk opening the file to append ("a") instead of to write ("w")
SavedDiskAppend(d, team_id, players_data, env) ==
    LET had == IF Exists(d, Filename(team_id)) THEN d[Filename(team_id)] ELSE <<>>
    IN  CASE env.fail = "open" -> d
          [] env.fail = "write" ->
                WriteFile(d, Filename(team_id),
                          had \o Prefix(JsonDump(players_data), env.written))
          [] OTHER -> WriteFile(d, Filename(team_id), had \o JsonDump(players_data))

\* the directory after the call: open(filename, "w") truncates the file;
\* json.dump then writes the tokens, all of them or, when a write fails,
\* the first env.written of them
SavedDisk(d, team_id, players_data, env) ==
    CASE env.fail = "open" -> d
      [] env.fail = "write" ->
            WriteFile(d, Filename(team_id), Prefix(JsonDump(players_data), env.written))
      [] OTHER -> WriteFile(d, Filename(team_id), JsonDump(players_data))

\* the try block: the open or a write raises, or the block returns True
SaveTry(env) ==
    IF env.fail = "none" THEN Return(BoolV(TRUE)) ELSE Raise("OSError")

\* SaveResult without the except clause
SaveResultUncaught(env) == SaveTry(env)

\* except Exception: print the error and return False
SaveResult(env) ==
    IF SaveTry(env)[1] = "raise" THEN Return(BoolV(FALSE)) ELSE SaveTry(env)

\* the ways a save of players_data can end
SaveEnvs(players_data) ==
    {EnvOk, EnvOpenFails}
        \cup {EnvWriteFails(k) : k \in 0..(IF Len(JsonDump(players_data)) - 1 < MaxPartial
                                           THEN Len(JsonDump(players_data)) - 1
                                           ELSE MaxPartial)}

Save(team_id, players_data, env) ==
    /\ disk' = SavedDisk(disk, team_id, players_data, env)
    /\ call' = [op |-> "save", id |-> team_id, arg |-> players_data, env |-> env,
                prev |-> lastSave[team_id], ret |-> SaveResult(env)]
    /\ lastSave' = [lastSave EXCEPT ![team_id] =
                        IF env.fail = "none" THEN SavedOk(players_data) ELSE SaveFailed]
    /\ everSaved' = IF env.fail = "none" THEN everSaved \cup {team_id} ELSE everSaved
    /\ UNCHANGED saving

----------------------------------------------------------------------------
(* LoadTeamSnapshot.forward *)

\* LoadResult catching the errors of the read and returning None
LoadResultQuiet(d, team_id, env) ==
    IF ~Exists(d, Filename(team_id)) THEN Return(None)
    ELSE IF env.fail = "open" THEN Return(None)
    ELSE LET r == JsonLoad(d[Filename(team_id)])
         IN  IF r.ok THEN Return(r.val) ELSE Return(None)

\* None without a file; else json.load of it, whose errors (an open that
\* fails, a document that does not parse) reach the caller
LoadResult(d, team_id, env) ==
    IF ~Exists(d, Filename(team_id)) THEN Return(None)
    ELSE IF env.fail = "open" THEN Raise("OSError")
    ELSE LET r == JsonLoad(d[Filename(team_id)])
         IN  IF r.ok THEN Return(r.val) ELSE Raise("JSONDecodeError")

Load(team_id, env) ==
    /\ call' = [op |-> "load", id |-> team_id, arg |-> None, env |-> env,
                prev |-> lastSave[team_id], ret |-> LoadResult(disk, team_id, env)]
    /\ UNCHANGED <<disk, lastSave, everSaved, saving>>

----------------------------------------------------------------------------
(* CompareTeamSnapshots.forward *)

\* ATTRS without its last name
ATTRSShort == <<"age", "salary", "form", "aggression", "discipline",
                "leadership", "experience", "weight", "height", "csr">>

\* the attributes compared at the top level of a record
ATTRS == <<"age", "salary", "form", "aggression", "discipline",
           "leadership", "experience", "weight", "height", "csr", "energy">>

\* a dict key from a str value, and back
AsKey(v) == v[2]
AsValue(k) == StrV(k)

\* p["name"] raises KeyError for some p of the snapshot
NameMissing(snapshot) ==
    \E i \in 1..Len(Items(snapshot)) : ~HasKey(Items(snapshot)[i], "name")

RECURSIVE ByNameMoving(_, _, _)
\* ByNameFrom moving a name seen again to the end of the view
ByNameMoving(items, i, acc) ==
    IF i > Len(items) THEN acc
    ELSE LET name == AsKey(Lookup(items[i], "name"))
             others == SelectSeq(Pairs(acc), LAMBDA kv : kv[1] # name)
         IN  ByNameMoving(items, i + 1, DictV(Append(others, <<name, items[i]>>)))

RECURSIVE ByNameFirst(_, _, _)
\* ByNameFrom keeping the first record of a name
ByNameFirst(items, i, acc) ==
    IF i > Len(items) THEN acc
    ELSE ByNameFirst(items, i + 1,
                     IF HasKey(acc, AsKey(Lookup(items[i], "name"))) THEN acc
                     ELSE SetItem(acc, AsKey(Lookup(items[i], "name")), items[i]))

RECURSIVE ByNameFrom(_, _, _)
\* {p["name"]: p for p in items[i..]} added to acc
ByNameFrom(items, i, acc) ==
    IF i > Len(items) THEN acc
    ELSE ByNameFrom(items, i + 1,
                    SetItem(acc, AsKey(Lookup(items[i], "name")), items[i]))

\* {p["name"]: p for p in snapshot}
PlayersByName(snapshot) == ByNameFrom(Items(snapshot), 1, EmptyDict)

RECURSIVE NotIn(_, _, _)
\* the keys[i..] that other does not have, in order
NotIn(keys, i, other) ==
    IF i > Len(keys) THEN <<>>
    ELSE (IF HasKey(other, keys[i]) THEN <<>> ELSE <<AsValue(keys[i])>>)
             \o NotIn(keys, i + 1, other)

\* for name in new_players_by_name: if name not in old_players_by_name
NewPlayers(old_by_name, new_by_name) == ListV(NotIn(KeysOf(new_by_name), 1, old_by_name))

\* the elements of a sequence, last first
Reverse(s) == [i \in 1..Len(s) |-> s[Len(s) + 1 - i]]

\* RemovedPlayers putting each name before the ones found so far
RemovedPlayersFront(old_by_name, new_by_name) ==
    ListV(Reverse(NotIn(KeysOf(old_by_name), 1, new_by_name)))

\* for name in old_players_by_name: if name not in new_players_by_name
RemovedPlayers(old_by_name, new_by_name) == ListV(NotIn(KeysOf(old_by_name), 1, new_by_name))

\* {"old": ..., "new": ...}
Change(old, new) == DictV(<< <<"old", old>>, <<"new", new>> >>)

RECURSIVE DiffAttrs(_, _, _, _)
\* the top-level loop over ATTRS[i..]
DiffAttrs(old_p, new_p, i, diff) ==
    IF i > Len(ATTRS) THEN diff
    ELSE DiffAttrs(old_p, new_p, i + 1,
            IF Get(old_p, ATTRS[i]) # Get(new_p, ATTRS[i])
            THEN SetItem(diff, ATTRS[i], Change(Get(old_p, ATTRS[i]), Get(new_p, ATTRS[i])))
            ELSE diff)

\* the skills the loop over the old record's skills iterates
OldSkills(old_p) == KeysOf(GetOr(old_p, "skills", EmptyDict))

\* new_p["skills"] raises KeyError in the first iteration of the skills loop
SkillsMissing(old_p, new_p) ==
    Len(OldSkills(old_p)) > 0 /\ ~HasKey(new_p, "skills")

RECURSIVE DiffSkillsFlat(_, _, _, _)
\* DiffSkills reading the new value at the top level of the new record
DiffSkillsFlat(old_p, new_p, i, diff) ==
    IF i > Len(OldSkills(old_p)) THEN diff
    ELSE LET skill == OldSkills(old_p)[i]
             old == Get(Lookup(old_p, "skills"), skill)
             new == Get(new_p, skill)
         IN  DiffSkillsFlat(old_p, new_p, i + 1,
                            IF old # new THEN SetItem(diff, skill, Change(old, new)) ELSE diff)

RECURSIVE DiffSkillsNew(_, _, _, _)
\* DiffSkills iterating the skills of the new record
DiffSkillsNew(old_p, new_p, i, diff) ==
    IF i > Len(KeysOf(GetOr(new_p, "skills", EmptyDict))) THEN diff
    ELSE LET skill == KeysOf(Lookup(new_p, "skills"))[i]
             old == Get(GetOr(old_p, "skills", EmptyDict), skill)
             new == Get(Lookup(new_p, "skills"), skill)
         IN  DiffSkillsNew(old_p, new_p, i + 1,
                           IF old # new THEN SetItem(diff, skill, Change(old, new)) ELSE diff)

RECURSIVE DiffSkills(_, _, _, _)
\* the loop over the old record's skills[i..], for a new_p that has skills
DiffSkills(old_p, new_p, i, diff) ==
    IF i > Len(OldSkills(old_p)) THEN diff
    ELSE LET skill == OldSkills(old_p)[i]
             old == Get(Lookup(old_p, "skills"), skill)
             new == Get(Lookup(new_p, "skills"), skill)
         IN  DiffSkills(old_p, new_p, i + 1,
                        IF old # new THEN SetItem(diff, skill, Change(old, new)) ELSE diff)

\* diff of one player present in both snapshots
PlayerDiff(old_p, new_p) ==
    DiffSkills(old_p, new_p, 1, DiffAttrs(old_p, new_p, 1, EmptyDict))

\* the names of both views, in the order of the new view
Common(old_by_name, new_by_name) ==
    SelectSeq(KeysOf(new_by_name), LAMBDA name : HasKey(old_by_name, name))

RECURSIVE AttributeChangesAll(_, _, _, _)
\* AttributeChanges without the test of diff
AttributeChangesAll(old_by_name, new_by_name, names, i) ==
    IF i > Len(names) THEN EmptyDict
    ELSE LET diff == PlayerDiff(Lookup(old_by_name, names[i]), Lookup(new_by_name, names[i]))
             rest == AttributeChangesAll(old_by_name, new_by_name, names, i + 1)
         IN  DictV(<<<<names[i], diff>>>> \o Pairs(rest))

RECURSIVE AttributeChanges(_, _, _, _)
\* the attribute loop over names[i..]
AttributeChanges(old_by_name, new_by_name, names, i) ==
    IF i > Len(names) THEN EmptyDict
    ELSE LET diff == PlayerDiff(Lookup(old_by_name, names[i]), Lookup(new_by_name, names[i]))
             rest == AttributeChanges(old_by_name, new_by_name, names, i + 1)
         IN  IF Len(Pairs(diff)) > 0
             THEN DictV(<<<<names[i], diff>>>> \o Pairs(rest))
             ELSE rest

\* the comparison of a loaded snapshot with new_snapshot
Changes(old_snapshot, new_snapshot) ==
    IF NameMissing(old_snapshot) \/ NameMissing(new_snapshot) THEN Raise("KeyError")
    ELSE LET old_by_name == PlayersByName(old_snapshot)
             new_by_name == PlayersByName(new_snapshot)
             names == Common(old_by_name, new_by_name)
         IN  IF \E i \in 1..Len(names) :
                    SkillsMissing(Lookup(old_by_name, names[i]), Lookup(new_by_name, names[i]))
             THEN Raise("KeyError")
             ELSE Return(DictV(<<
                    <<"new_players", NewPlayers(old_by_name, new_by_name)>>,
                    <<"removed_players", RemovedPlayers(old_by_name, new_by_name)>>,
                    <<"attribute_changes",
                      AttributeChanges(old_by_name, new_by_name, names, 1)>> >>))

\* load the old snapshot; None without one, its error if it raises
CompareResult(d, team_id, new_snapshot, env) ==
    LET loaded == LoadResult(d, team_id, env)
    IN  IF loaded[1] = "raise" THEN loaded
        ELSE IF loaded[2] = None THEN Return(None)
        ELSE Changes(loaded[2], new_snapshot)

\* Compare keeping new_snapshot as the snapshot of the team
ComparePersisting(team_id, new_snapshot, env) ==
    /\ call' = [op |-> "compare", id |-> team_id, arg |-> new_snapshot, env |-> env,
                prev |-> lastSave[team_id],
                ret |-> CompareResult(disk, team_id, new_snapshot, env)]
    /\ disk' = WriteFile(disk, Filename(team_id), JsonDump(new_snapshot))
    /\ UNCHANGED <<lastSave, everSaved, saving>>

Compare(team_id, new_snapshot, env) ==
    /\ call' = [op |-> "compare", id |-> team_id, arg |-> new_snapshot, env |-> env,
                prev |-> lastSave[team_id],
                ret |-> CompareResult(disk, team_id, new_snapshot, env)]
    /\ UNCHANGED <<disk, lastSave, everSaved, saving>>

----------------------------------------------------------------------------
(* ReportTeamChanges.forward.  The str it returns is "\n".join(lines); it  *)
(* is kept as Text(lines), the sequence of its lines.                      *)

Text(lines) == <<"text", lines>>
LinesOf(text) == text[2]

\* f"{v}" of a scalar
Str(v) ==
    CASE v[1] = "int" -> ToString(v[2])
      [] v[1] = "str" -> v[2]
      [] v[1] = "bool" -> IF v[2] THEN "True" ELSE "False"
      [] v[1] = "none" -> "None"

NoSnapshotSentence == "No previous snapshot exists. Unable to report changes."

\* the arrow the source puts between the old and the new value, in ASCII
Arrow == " -> "

\* for name in players: lines.append(f" - {name}")
NameLines(players) == [i \in 1..Len(Items(players)) |-> " - " \o Str(Items(players)[i])]

\* the header of a list of players, or the sentence for an empty one
Section(players, header, nothing) ==
    IF Len(Items(players)) > 0 THEN <<header>> \o NameLines(players) ELSE <<nothing>>

\* FieldLine giving the new value first
FieldLineSwapped(attr, vals) ==
    "     " \o attr \o ": " \o Str(Lookup(vals, "new")) \o Arrow \o Str(Lookup(vals, "old"))

\* f"     {attr}: {vals['old']} -> {vals['new']}"
FieldLine(attr, vals) ==
    "     " \o attr \o ": " \o Str(Lookup(vals, "old")) \o Arrow \o Str(Lookup(vals, "new"))

\* for attr, vals in attrs.items()
FieldLines(attrs) ==
    [i \in 1..Len(Pairs(attrs)) |-> FieldLine(Pairs(attrs)[i][1], Pairs(attrs)[i][2])]

RECURSIVE PlayerBlocks(_, _)
\* for name, attrs in attribute_changes.items(), from the i-th on
PlayerBlocks(attribute_changes, i) ==
    IF i > Len(Pairs(attribute_changes)) THEN <<>>
    ELSE <<" - " \o Pairs(attribute_changes)[i][1] \o ":">>
            \o FieldLines(Pairs(attribute_changes)[i][2])
            \o PlayerBlocks(attribute_changes, i + 1)

\* the attribute section
AttributeSection(attribute_changes) ==
    IF Len(Pairs(attribute_changes)) > 0
    THEN <<"Changes in player attributes:">> \o PlayerBlocks(attribute_changes, 1)
    ELSE <<"No changes in player attributes detected.">>

\* lines, for changes that are not None
ReportLines(changes) ==
    Section(GetOr(changes, "new_players", EmptyList),
            "New players added:", "No new players added.")
        \o Section(GetOr(changes, "removed_players", EmptyList),
                   "Players removed:", "No players removed.")
        \o AttributeSection(GetOr(changes, "attribute_changes", EmptyDict))

\* ReportResult testing `not changes` instead of `changes is None`
ReportResultFalsy(changes) ==
    IF changes = None \/ changes = EmptyDict THEN Return(Text(<<NoSnapshotSentence>>))
    ELSE Return(Text(ReportLines(changes)))

ReportResult(changes) ==
    IF changes = None THEN Return(Text(<<NoSnapshotSentence>>))
    ELSE Return(Text(ReportLines(changes)))

Report(changes) ==
    /\ call' = [op |-> "report", id |-> call.id, arg |-> changes, env |-> EnvOk,
                prev |-> call.prev, ret |-> ReportResult(changes)]
    /\ UNCHANGED <<disk, lastSave, everSaved, saving>>

----------------------------------------------------------------------------
(* The collections the tools are called with.  A record is built as the    *)
(* fetching tools build it: the name first, then attributes, then skills;  *)
(* the skill names are those of the game (speed, kicking, ...).            *)

Vals == {IntV(v) : v \in 1..MaxVal}

Base(name) == DictV(<< <<"name", StrV(name)>> >>)
With(record, k, v) == SetItem(record, k, v)
Skills(pairs) == DictV(pairs)

\* a record with an attribute and a nested skills mapping
Full == With(With(Base("A"), "age", IntV(1)), "skills", Skills(<< <<"speed", IntV(1)>> >>))

\* a record without the identity field
Nameless == DictV(<< <<"age", IntV(1)>> >>)

\* the records of the longer collections: two identities, one of them with
\* two records that differ
CoreRecs == {Base("A"), Base("B"), With(Base("A"), "age", IntV(1))}

SkillDicts ==
    {Skills(<<>>)}
        \cup {Skills(<< <<"speed", v>> >>) : v \in Vals \cup {None}}
        \cup {Skills(<< <<"speed", IntV(1)>>, <<"kicking", v>> >>) : v \in Vals}

ExtraRecs ==
    {With(Base("A"), "age", None), With(Base("A"), "energy", IntV(1)),
     With(Base("B"), "age", IntV(1)), Base("C"), Full, Nameless}
        \cup {With(Base("A"), "age", v) : v \in Vals}
        \cup {With(Base("A"), "nationality", v) : v \in Vals}
        \cup {With(Base("A"), "skills", s) : s \in SkillDicts}

\* the sequences over S of length at most n
SeqsUpTo(S, n) == UNION {[1..k -> S] : k \in 0..n}

\* the collections the comparison is checked on
DiffColls ==
    {ListV(s) : s \in SeqsUpTo(CoreRecs, MaxLen)}
        \cup {ListV(<<r>>) : r \in ExtraRecs}
        \cup {ListV(<<r, With(Base("B"), "age", IntV(1))>>) : r \in CoreRecs \cup ExtraRecs}

\* the collections the store is checked on
StoreColls ==
    {ListV(<<>>), ListV(<<Base("A")>>), ListV(<<Full>>),
     ListV(<<With(Base("A"), "age", IntV(MaxVal))>>),
     ListV(<<Base("B"), Base("A")>>), ListV(<<Full, Base("B")>>)}

\* a record with the identity field
WellFormedRecord(p) == HasKey(p, "name")
WellFormed(collection) ==
    \A i \in 1..Len(Items(collection)) : WellFormedRecord(Items(collection)[i])

----------------------------------------------------------------------------
(* The store under any sequence of calls *)

NoCall ==
    [op |-> "none", id |-> 0, arg |-> None, env |-> EnvOk, prev |-> NeverSaved,
     ret |-> Return(None)]

Init ==
    /\ disk = <<>>
    /\ call = NoCall
    /\ lastSave = [id \in TeamIds |-> NeverSaved]
    /\ everSaved = {}
    /\ saving = [w \in Writers |-> Idle]

ReadEnvs == {EnvOk, EnvOpenFails}

Next ==
    \/ \E id \in TeamIds, c \in StoreColls : \E env \in SaveEnvs(c) : Save(id, c, env)
    \/ \E id \in TeamIds, env \in ReadEnvs : Load(id, env)
    \/ \E id \in TeamIds, c \in StoreColls, env \in ReadEnvs : Compare(id, c, env)

Spec == Init /\ [][Next]_vars

----------------------------------------------------------------------------
(* The four tools under any sequence of calls: the reports are those of   *)
(* what the last compare returned.                                         *)

\* the collections the tools are called with
ToolsColls == {ListV(<<Base("A")>>), ListV(<<Full>>), ListV(<<Full, Base("B")>>)}

ToolsReport ==
    /\ call.op = "compare"
    /\ call.ret[1] = "return"
    /\ Report(call.ret[2])

NextTools ==
    \/ \E id \in TeamIds, c \in ToolsColls : \E env \in SaveEnvs(c) : Save(id, c, env)
    \/ \E id \in TeamIds, env \in ReadEnvs : Load(id, env)
    \/ \E id \in TeamIds, c \in ToolsColls, env \in ReadEnvs : Compare(id, c, env)
    \/ ToolsReport

ToolsSpec == Init /\ [][NextTools]_vars

----------------------------------------------------------------------------
(* The tools on every collection and pair of collections: one session     *)
(* saves at most one snapshot of team 1, then loads it or compares one     *)
(* collection with it.                                                     *)

DiffSave(c) == call.op = "none" /\ Save(1, c, EnvOk)
DiffLoad == call.op \in {"none", "save"} /\ Load(1, EnvOk)
DiffCompare(c) == call.op \in {"none", "save"} /\ Compare(1, c, EnvOk)

NextDiff ==
    \/ \E c \in DiffColls : DiffSave(c)
    \/ DiffLoad
    \/ \E c \in DiffColls : DiffCompare(c)

DiffSpec == Init /\ [][NextDiff]_vars

----------------------------------------------------------------------------
(* The report of what a compare returned, and of a dict without the keys  *)
(* of a change-set.                                                        *)

DiffReport ==
    /\ call.op = "compare"
    /\ call.ret[1] = "return"
    /\ \E changes \in {call.ret[2], EmptyDict} : Report(changes)

NextReport ==
    \/ \E c \in DiffColls : DiffSave(c)
    \/ DiffLoad
    \/ \E c \in DiffColls : DiffCompare(c)
    \/ DiffReport

ReportSpec == Init /\ [][NextReport]_vars

----------------------------------------------------------------------------
(* Two callers in SaveTeamSnapshot.forward for the same team id at the     *)
(* same time, no lock held.  Each opens the file with "w", which empties   *)
(* it, writes its document through its own file position, in one write or *)
(* in several as the buffer of the file object flushes, and closes it      *)
(* before it returns True.                                                 *)

RaceTeam == 1

\* the collections the two callers save: documents of different lengths
RaceColls ==
    {ListV(<<>>), ListV(<<Base("A")>>), ListV(<<Base("B"), Base("A")>>)}

\* a position of a file no write has filled
Hole == <<"nul">>

\* the content after writing chunk at position pos: the chunk replaces
\* what the file holds there, the file grows to hold it, and positions
\* before pos that the file does not have become holes
WriteAt(content, pos, chunk) ==
    [i \in 1..(IF Len(content) > pos + Len(chunk) THEN Len(content)
               ELSE pos + Len(chunk)) |->
        IF i > pos /\ i <= pos + Len(chunk) THEN chunk[i - pos]
        ELSE IF i <= Len(content) THEN content[i]
        ELSE Hole]

\* with open(filename, "w") as f
RaceOpen(w, players_data) ==
    /\ saving[w].pc = "idle"
    /\ disk' = WriteFile(disk, Filename(RaceTeam), <<>>)
    /\ saving' = [saving EXCEPT ![w] = [pc |-> "writing", arg |-> players_data, pos |-> 0]]
    /\ UNCHANGED <<call, lastSave, everSaved>>

\* json.dump(players_data, f): the next tokens, one or more, reach the file
RaceWrite(w) ==
    /\ saving[w].pc = "writing"
    /\ \E k \in 1..(Len(JsonDump(saving[w].arg)) - saving[w].pos) :
          /\ disk' = WriteFile(disk, Filename(RaceTeam),
                               WriteAt(disk[Filename(RaceTeam)], saving[w].pos,
                                       SubSeq(JsonDump(saving[w].arg),
                                              saving[w].pos + 1, saving[w].pos + k)))
          /\ saving' = [saving EXCEPT ![w].pos = @ + k]
    /\ UNCHANGED <<call, lastSave, everSaved>>

\* the file is closed with the whole document written; return True
RaceClose(w) ==
    /\ saving[w].pc = "writing"
    /\ saving[w].pos = Len(JsonDump(saving[w].arg))
    /\ saving' = [saving EXCEPT ![w].pc = "done"]
    /\ call' = [op |-> "save", id |-> RaceTeam, arg |-> saving[w].arg, env |-> EnvOk,
                prev |-> lastSave[RaceTeam], ret |-> Return(BoolV(TRUE))]
    /\ lastSave' = [lastSave EXCEPT ![RaceTeam] = SavedOk(saving[w].arg)]
    /\ everSaved' = everSaved \cup {RaceTeam}
    /\ UNCHANGED disk

\* both callers have returned; the snapshot is loaded
RaceLoad ==
    /\ \A w \in Writers : saving[w].pc = "done"
    /\ call.op = "save"
    /\ Load(RaceTeam, EnvOk)

NextRace ==
    \/ \E w \in Writers, c \in RaceColls : RaceOpen(w, c)
    \/ \E w \in Writers : RaceWrite(w)
    \/ \E w \in Writers : RaceClose(w)
    \/ RaceLoad

RaceSpec == Init /\ [][NextRace]_vars

\* C17: once two saves to the same team id that ran at the same time have
\* both returned, a load of the id returns the collection of one of the
\* two, whole.
RaceLastWriterWins ==
    (call.op = "load" /\ \A w \in Writers : saving[w].pc = "done")
        => \E w \in Writers : call.ret = Return(saving[w].arg)

----------------------------------------------------------------------------
(* Properties of the store *)

\* the snapshot of team_id a call found stored: the collection of the last
\* save to team_id, that save having completed
Stored(c) == c.prev[1] = "saved"
StoredColl(c) == c.prev[2]

\* C1: a load of a team id whose last save completed, no save to the id
\* since, returns a collection equal to the saved one: the same records in
\* the same order with the same members, nested skills included.
RoundTrip ==
    (call.op = "load" /\ call.env = EnvOk /\ Stored(call))
        => call.ret = Return(StoredColl(call))

\* a snapshot with an attribute, a nested skills mapping and a second
\* record was saved and then loaded
RoundTripWitness ==
    /\ call.op = "load"
    /\ Stored(call)
    /\ StoredColl(call) = ListV(<<Full, With(Base("B"), "age", IntV(1))>>)
    /\ call.ret[1] = "return"

\* C2: the file of every team id whose last save completed holds the
\* document of that save and nothing else, and a load of the id returns the
\* collection of that save.
LastSaveWins ==
    \A id \in TeamIds :
        lastSave[id][1] = "saved"
            => /\ Exists(disk, Filename(id))
               /\ disk[Filename(id)] = JsonDump(lastSave[id][2])
               /\ LoadResult(disk, id, EnvOk) = Return(lastSave[id][2])

\* a completed save has just replaced the snapshot of an earlier completed
\* save of a longer collection
LastSaveWinsWitness ==
    /\ call.op = "save"
    /\ call.env = EnvOk
    /\ Stored(call)
    /\ StoredColl(call) = ListV(<<Full, Base("B")>>)
    /\ call.arg = ListV(<<Base("A")>>)

\* C3: after a failed save to a team id that had a snapshot stored, a load
\* of the id still returns that snapshot.
FailedSaveKeepsSnapshot ==
    (call.op = "save" /\ call.ret = Return(BoolV(FALSE)) /\ Stored(call))
        => LoadResult(disk, call.id, EnvOk) = Return(StoredColl(call))

\* C4: a save returns to its caller and never raises; it returns True
\* exactly when it has opened the file and written the whole document, and
\* False when the open or a write failed.
SaveNeverRaises ==
    call.op = "save"
        => /\ call.ret[1] = "return"
           /\ call.ret[2] \in {BoolV(TRUE), BoolV(FALSE)}
           /\ call.ret = Return(BoolV(TRUE))
                <=> /\ call.env.fail # "open"
                    /\ Exists(disk, Filename(call.id))
                    /\ disk[Filename(call.id)] = JsonDump(call.arg)
           /\ call.env.fail # "none" => call.ret = Return(BoolV(FALSE))

\* a save whose write failed part-way returned False
SaveNeverRaisesWitness ==
    /\ call.op = "save"
    /\ call.env = EnvWriteFails(MaxPartial)
    /\ call.ret = Return(BoolV(FALSE))

\* C5: a load returns None if and only if no save to the team id has ever
\* completed.
AbsentIffNeverSaved ==
    (call.op = "load" /\ call.env = EnvOk)
        => (call.ret = Return(None) <=> call.id \notin everSaved)

----------------------------------------------------------------------------
(* Properties of the comparison *)

\* a call of compare that returned a change-set for a stored snapshot
GaveChanges(c) ==
    c.op = "compare" /\ Stored(c) /\ c.ret[1] = "return" /\ c.ret[2] # None
ChangesOf(c) == c.ret[2]

\* the identity of a record, and the identities of a collection
NameOf(p) == Lookup(p, "name")
NamesOf(collection) == {NameOf(Items(collection)[i]) : i \in 1..Len(Items(collection))}

\* where an identity first and last occurs in a collection
FirstIndex(collection, name) ==
    CHOOSE i \in 1..Len(Items(collection)) :
        /\ NameOf(Items(collection)[i]) = name
        /\ \A j \in 1..(i - 1) : NameOf(Items(collection)[j]) # name
LastIndex(collection, name) ==
    CHOOSE i \in 1..Len(Items(collection)) :
        /\ NameOf(Items(collection)[i]) = name
        /\ \A j \in (i + 1)..Len(Items(collection)) : NameOf(Items(collection)[j]) # name

\* s holds exactly the identities of S, each once, in the order of their
\* first occurrence in collection
ListsInOrder(s, S, collection) ==
    /\ Range(s) = S
    /\ \A i, j \in 1..Len(s) :
          i < j => FirstIndex(collection, s[i]) < FirstIndex(collection, s[j])

EmptyChanges ==
    DictV(<< <<"new_players", EmptyList>>, <<"removed_players", EmptyList>>,
             <<"attribute_changes", EmptyDict>> >>)

\* C6: compare returns None whenever the team id has no file, and a
\* change-set whenever a snapshot is stored for it, the snapshot and the new
\* collection being well-formed.
CompareAbsentOnlyWithoutSnapshot ==
    (call.op = "compare" /\ call.env = EnvOk)
        => /\ ~Exists(disk, Filename(call.id)) => call.ret = Return(None)
           /\ (Stored(call) /\ WellFormed(StoredColl(call)) /\ WellFormed(call.arg))
                 => (call.ret[1] = "return" /\ call.ret[2] # None)

\* C7: comparing a stored well-formed collection with itself, the load of
\* it meeting no I/O error, gives the change-set with no new player, no
\* removed player and no attribute change.
SelfCompareEmpty ==
    (call.op = "compare" /\ call.env = EnvOk /\ Stored(call)
        /\ StoredColl(call) = call.arg /\ WellFormed(call.arg))
        => call.ret = Return(EmptyChanges)

\* a collection with attributes, nested skills and two identities was
\* compared with itself
SelfCompareEmptyWitness ==
    /\ call.op = "compare"
    /\ Stored(call)
    /\ StoredColl(call) = call.arg
    /\ call.arg = ListV(<<Full, With(Base("B"), "age", IntV(1))>>)
    /\ call.ret[1] = "return"

\* C8: new_players of a change-set holds exactly the identities of the new
\* collection that the old snapshot does not have, each once, in the order
\* of their first occurrence in the new collection.
AddedExact ==
    GaveChanges(call)
        => ListsInOrder(Items(Lookup(ChangesOf(call), "new_players")),
                        NamesOf(call.arg) \ NamesOf(StoredColl(call)),
                        call.arg)

\* two identities were added, the first of them occurring again after the
\* second
AddedExactWitness ==
    /\ GaveChanges(call)
    /\ call.arg = ListV(<<Base("B"), Base("A"), Base("B")>>)
    /\ Lookup(ChangesOf(call), "new_players") = ListV(<<StrV("B"), StrV("A")>>)

\* C9: removed_players of a change-set holds exactly the identities of the
\* old snapshot that the new collection does not have, each once, in the
\* order of their first occurrence in the old snapshot.
RemovedExact ==
    GaveChanges(call)
        => ListsInOrder(Items(Lookup(ChangesOf(call), "removed_players")),
                        NamesOf(StoredColl(call)) \ NamesOf(call.arg),
                        StoredColl(call))

\* two identities were removed, the first of them occurring again after the
\* second in the old snapshot
RemovedExactWitness ==
    /\ GaveChanges(call)
    /\ StoredColl(call) = ListV(<<Base("B"), Base("A"), Base("B")>>)
    /\ Lookup(ChangesOf(call), "removed_players") = ListV(<<StrV("B"), StrV("A")>>)

\* the eleven attribute names
Eleven ==
    {"age", "salary", "form", "aggression", "discipline", "leadership",
     "experience", "weight", "height", "csr", "energy"}

\* the top-level field names of the records
TopFields == Eleven \cup {"name", "nationality", "skills"}

\* the record of an identity in a collection: the last one with it
RecordOf(collection, name) == Items(collection)[LastIndex(collection, name)]

\* the changes a change-set lists for an identity
DiffOf(changes, name) == GetOr(Lookup(changes, "attribute_changes"), AsKey(name), EmptyDict)

\* C10: for every identity of both the old snapshot and the new collection,
\* the changes of the identity have an entry for a top-level field if and
\* only if the field is one of the eleven attributes and its old and new
\* values, None for a missing field, differ; the entry holds these two
\* values.
TopLevelEntries ==
    GaveChanges(call)
        => \A name \in NamesOf(StoredColl(call)) \cap NamesOf(call.arg) :
             \A field \in TopFields :
                LET old == Get(RecordOf(StoredColl(call), name), field)
                    new == Get(RecordOf(call.arg, name), field)
                    diff == DiffOf(ChangesOf(call), name)
                IN  /\ HasKey(diff, field) <=> (field \in Eleven /\ old # new)
                    /\ HasKey(diff, field) =>
                          Lookup(diff, field) = DictV(<< <<"old", old>>, <<"new", new>> >>)

\* an attribute missing in the old record and set in the new one got its
\* entry
TopLevelEntriesWitness ==
    /\ GaveChanges(call)
    /\ StoredColl(call) = ListV(<<Base("A")>>)
    /\ call.arg = ListV(<<With(Base("A"), "energy", IntV(1))>>)
    /\ DiffOf(ChangesOf(call), StrV("A"))
          = DictV(<< <<"energy", DictV(<< <<"old", None>>, <<"new", IntV(1)>> >>)>> >>)

\* the nested skills of a record, empty when it has none
SkillsOf(p) == GetOr(p, "skills", EmptyDict)

\* some compared field differs between two records of an identity: one of
\* the eleven attributes, or a skill of the old record (None for a missing
\* field or skill)
Differing(old_p, new_p) ==
    \/ \E field \in Eleven : Get(old_p, field) # Get(new_p, field)
    \/ \E skill \in Range(KeysOf(SkillsOf(old_p))) :
          Get(SkillsOf(old_p), skill) # Get(SkillsOf(new_p), skill)

\* C11: the keys of attribute_changes are exactly the identities of both
\* the old snapshot and the new collection whose records differ in a
\* compared field, each once; no key maps to an empty mapping and no added
\* or removed identity is a key.
ChangedKeysExact ==
    GaveChanges(call)
        => LET changed == Lookup(ChangesOf(call), "attribute_changes")
               both == NamesOf(StoredColl(call)) \cap NamesOf(call.arg)
           IN  /\ \A k \in Range(KeysOf(changed)) : AsValue(k) \in both
               /\ Cardinality(Range(KeysOf(changed))) = Len(KeysOf(changed))
               /\ \A name \in both :
                     HasKey(changed, AsKey(name))
                        <=> Differing(RecordOf(StoredColl(call), name),
                                      RecordOf(call.arg, name))
               /\ \A i \in 1..Len(Pairs(changed)) : Pairs(changed)[i][2] # EmptyDict

\* of two identities of both collections one changed and is a key, the
\* other did not and is not
ChangedKeysExactWitness ==
    /\ GaveChanges(call)
    /\ StoredColl(call) = ListV(<<Base("A"), Base("B")>>)
    /\ call.arg = ListV(<<With(Base("A"), "age", IntV(1)), Base("B")>>)
    /\ KeysOf(Lookup(ChangesOf(call), "attribute_changes")) = <<"A">>

\* the skill names of the records
SkillNames == {"speed", "kicking"}

\* C12 as stated: for every identity of both collections a skill has an
\* entry in the changes of the identity if and only if the old record's
\* skills have it and the new record's skills lack it or hold another
\* value; the entry holds the two values.
SkillEntriesStrict ==
    GaveChanges(call)
        => \A name \in NamesOf(StoredColl(call)) \cap NamesOf(call.arg) :
             \A skill \in SkillNames :
                LET old_skills == SkillsOf(RecordOf(StoredColl(call), name))
                    new_skills == SkillsOf(RecordOf(call.arg, name))
                    diff == DiffOf(ChangesOf(call), name)
                IN  /\ HasKey(diff, skill)
                        <=> /\ HasKey(old_skills, skill)
                            /\ \/ ~HasKey(new_skills, skill)
                               \/ Lookup(old_skills, skill) # Lookup(new_skills, skill)
                    /\ HasKey(diff, skill) =>
                          Lookup(diff, skill)
                             = DictV(<< <<"old", Get(old_skills, skill)>>,
                                        <<"new", Get(new_skills, skill)>> >>)

\* C12 (amended): for every identity of both collections a skill has an
\* entry in the changes of the identity if and only if the old record's
\* skills have it and its old and new values, None for a skill the new
\* record's skills lack, differ; the entry holds the two values.  A skill
\* of the new record only has no entry.
SkillEntries ==
    GaveChanges(call)
        => \A name \in NamesOf(StoredColl(call)) \cap NamesOf(call.arg) :
             \A skill \in SkillNames :
                LET old_skills == SkillsOf(RecordOf(StoredColl(call), name))
                    new_skills == SkillsOf(RecordOf(call.arg, name))
                    diff == DiffOf(ChangesOf(call), name)
                IN  /\ HasKey(diff, skill)
                        <=> /\ HasKey(old_skills, skill)
                            /\ Get(old_skills, skill) # Get(new_skills, skill)
                    /\ HasKey(diff, skill) =>
                          Lookup(diff, skill)
                             = DictV(<< <<"old", Get(old_skills, skill)>>,
                                        <<"new", Get(new_skills, skill)>> >>)

\* the new record got a skill the old one does not have and nothing else
\* changed: the identity is not in attribute_changes
SkillEntriesWitness ==
    /\ GaveChanges(call)
    /\ StoredColl(call)
          = ListV(<<With(Base("A"), "skills", Skills(<< <<"speed", IntV(1)>> >>))>>)
    /\ call.arg
          = ListV(<<With(Base("A"), "skills",
                         Skills(<< <<"speed", IntV(1)>>, <<"kicking", IntV(MaxVal)>> >>))>>)
    /\ call.ret = Return(EmptyChanges)

\* the value a record holds for a compared field: an attribute at the top
\* level, a skill in the nested skills
FieldValue(p, field) ==
    IF field \in Eleven THEN Get(p, field) ELSE Get(SkillsOf(p), field)

\* an identity occurs more than once in a collection
Duplicated(collection, name) == FirstIndex(collection, name) # LastIndex(collection, name)

\* C13: for an identity of both collections that occurs several times in
\* the old snapshot or in the new collection, the changes are those between
\* the last record of the identity in the old snapshot and its last record
\* in the new collection: the identity is a key exactly when these two
\* differ, and every entry holds their two values.
LastRecordCompared ==
    GaveChanges(call)
        => \A name \in NamesOf(StoredColl(call)) \cap NamesOf(call.arg) :
             (Duplicated(StoredColl(call), name) \/ Duplicated(call.arg, name))
                => LET old_p == Items(StoredColl(call))[LastIndex(StoredColl(call), name)]
                       new_p == Items(call.arg)[LastIndex(call.arg, name)]
                       diff == DiffOf(ChangesOf(call), name)
                   IN  /\ diff # EmptyDict <=> Differing(old_p, new_p)
                       /\ \A field \in Range(KeysOf(diff)) :
                             Lookup(diff, field)
                                = DictV(<< <<"old", FieldValue(old_p, field)>>,
                                           <<"new", FieldValue(new_p, field)>> >>)

\* the old snapshot holds two records of an identity, the first equal to
\* the new record and the last not: the change of the last one is listed
LastRecordComparedWitness ==
    /\ GaveChanges(call)
    /\ StoredColl(call) = ListV(<<With(Base("A"), "age", IntV(1)), Base("A")>>)
    /\ call.arg = ListV(<<With(Base("A"), "age", IntV(1))>>)
    /\ DiffOf(ChangesOf(call), StrV("A"))
          = DictV(<< <<"age", DictV(<< <<"old", None>>, <<"new", IntV(1)>> >>)>> >>)

\* C14: a compare of a new collection with a stored snapshot, every record
\* of both having the identity field and nested skills or none, raises no
\* error and returns a change-set.
CompareWellFormedReturns ==
    (call.op = "compare" /\ call.env = EnvOk /\ Stored(call)
        /\ WellFormed(StoredColl(call)) /\ WellFormed(call.arg))
        => GaveChanges(call)

\* the identities of the records of a collection that have the identity
\* field
NamesOfWellFormed(collection) ==
    {NameOf(Items(collection)[i]) :
        i \in {j \in 1..Len(Items(collection)) : WellFormedRecord(Items(collection)[j])}}

\* C15: a compare with a record without the identity field in the old
\* snapshot or in the new collection returns a change-set, whose
\* new_players and removed_players are those of the records that have the
\* identity field.
MalformedSkipped ==
    (call.op = "compare" /\ call.env = EnvOk /\ Stored(call)
        /\ (~WellFormed(StoredColl(call)) \/ ~WellFormed(call.arg)))
        => /\ call.ret[1] = "return"
           /\ call.ret[2] # None
           /\ Range(Items(Lookup(ChangesOf(call), "new_players")))
                = NamesOfWellFormed(call.arg) \ NamesOfWellFormed(StoredColl(call))
           /\ Range(Items(Lookup(ChangesOf(call), "removed_players")))
                = NamesOfWellFormed(StoredColl(call)) \ NamesOfWellFormed(call.arg)

----------------------------------------------------------------------------
(* Properties of the errors of a read *)

\* the content of a file is the document of a collection
Readable(content) == \E c \in StoreColls : content = JsonDump(c)

\* C16: a load, and a compare, of a team id whose file cannot be opened
\* raises OSError, and of one whose file does not hold the document of a
\* collection raises JSONDecodeError; they return None exactly when the id
\* has no file.
ReadErrorsPropagate ==
    call.op \in {"load", "compare"}
        => /\ call.ret = Return(None) <=> ~Exists(disk, Filename(call.id))
           /\ (Exists(disk, Filename(call.id)) /\ call.env.fail = "open")
                 => call.ret = Raise("OSError")
           /\ (Exists(disk, Filename(call.id)) /\ call.env.fail = "none"
                 /\ ~Readable(disk[Filename(call.id)]))
                 => call.ret = Raise("JSONDecodeError")

\* a compare met the part of a document that a failed save had left
ReadErrorsPropagateWitness ==
    /\ call.op = "compare"
    /\ call.env = EnvOk
    /\ Exists(disk, Filename(call.id))
    /\ Len(disk[Filename(call.id)]) = MaxPartial
    /\ call.ret = Raise("JSONDecodeError")

----------------------------------------------------------------------------
(* Properties of the report *)

\* C18: a report is the sentence that no previous snapshot exists if and
\* only if its input is None; the report of a change-set, the one without
\* any change included, and of a dict without the keys of a change-set is
\* another text.
NoSnapshotOnlyForNone ==
    call.op = "report"
        => (call.ret = Return(Text(<<NoSnapshotSentence>>)) <=> call.arg = None)

\* the None of a compare without a snapshot was reported
NoSnapshotOnlyForNoneWitness ==
    /\ call.op = "report"
    /\ call.prev = NeverSaved
    /\ call.arg = None
    /\ call.ret = Return(Text(<<NoSnapshotSentence>>))

\* the text of the values of the records
ValueText(v) ==
    CASE v = None -> "None"
      [] v = IntV(1) -> "1"
      [] v = IntV(2) -> "2"
      [] v = IntV(3) -> "3"

\* the number of lines of a list section: the sentence of an empty list,
\* or a header and a line for each name
SectionLen(players) == IF players = <<>> THEN 1 ELSE 1 + Len(players)

RECURSIVE BlockStart(_, _)
\* the number of lines of the blocks before the j-th of attribute_changes:
\* for each, the line of the identity and a line for each changed field
BlockStart(blocks, j) ==
    IF j = 1 THEN 0
    ELSE BlockStart(blocks, j - 1) + 1 + Len(Pairs(blocks[j - 1][2]))

\* C19: the report of a change-set is, in this order: the header of the
\* new players and a line for each in list order, or the sentence that
\* none was added; the same for the removed players; and the header of the
\* attribute changes followed, for each identity of attribute_changes in
\* its order, by the line of the identity and a line for each changed
\* field with its old and new value, or the sentence that no attribute
\* changed; the report has no other line.
ReportSections ==
    (call.op = "report" /\ call.arg # None)
        => LET lines == LinesOf(call.ret[2])
               added == Items(GetOr(call.arg, "new_players", EmptyList))
               removed == Items(GetOr(call.arg, "removed_players", EmptyList))
               blocks == Pairs(GetOr(call.arg, "attribute_changes", EmptyDict))
               r == SectionLen(added)
               a == SectionLen(added) + SectionLen(removed)
           IN  /\ call.ret[1] = "return"
               /\ lines[1] = IF added = <<>> THEN "No new players added."
                             ELSE "New players added:"
               /\ \A i \in 1..Len(added) : lines[1 + i] = " - " \o added[i][2]
               /\ lines[r + 1] = IF removed = <<>> THEN "No players removed."
                                 ELSE "Players removed:"
               /\ \A i \in 1..Len(removed) : lines[r + 1 + i] = " - " \o removed[i][2]
               /\ lines[a + 1] = IF blocks = <<>>
                                 THEN "No changes in player attributes detected."
                                 ELSE "Changes in player attributes:"
               /\ \A j \in 1..Len(blocks) :
                     LET b == a + 1 + BlockStart(blocks, j)
                         fields == Pairs(blocks[j][2])
                     IN  /\ lines[b + 1] = " - " \o blocks[j][1] \o ":"
                         /\ \A f \in 1..Len(fields) :
                               lines[b + 1 + f]
                                  = "     " \o fields[f][1] \o ": "
                                       \o ValueText(Lookup(fields[f][2], "old")) \o " -> "
                                       \o ValueText(Lookup(fields[f][2], "new"))
               /\ Len(lines) = a + 1 + BlockStart(blocks, Len(blocks) + 1)

\* a change-set with a new player, a removed player and a changed
\* attribute was reported
ReportSectionsWitness ==
    /\ call.op = "report"
    /\ call.prev = SavedOk(ListV(<<Base("A"), Base("B")>>))
    /\ call.ret = Return(Text(<<"New players added:", " - C",
                                "Players removed:", " - A",
                                "Changes in player attributes:", " - B:",
                                "     age: None -> 1">>))

----------------------------------------------------------------------------
(* Properties of the reads *)

Reads == {"load", "compare", "report"}

\* C20: a load, a compare and a report leave every file of the snapshot
\* directory as it was, so that only a save changes a stored snapshot; the
\* compare just made, made again, returns what it returned.
ReadsKeepStore ==
    [][/\ call'.op \in Reads => disk' = disk
       /\ disk' # disk => call'.op = "save"
       /\ call'.op = "compare"
             => CompareResult(disk', call'.id, call'.arg, call'.env) = call'.ret]_vars

\* a compare with another collection returned a change-set and the file
\* still holds the snapshot it was compared with
ReadsKeepStoreWitness ==
    /\ call.op = "compare"
    /\ GaveChanges(call)
    /\ call.arg # StoredColl(call)
    /\ ChangesOf(call) # EmptyChanges
    /\ disk[Filename(call.id)] = JsonDump(StoredColl(call))

----------------------------------------------------------------------------
(* Properties of the team ids *)

\* the file of a team id in a directory: its content, or no file
NoFile == <<"no file">>
FileOf(d, team_id) ==
    IF Exists(d, Filename(team_id)) THEN <<"file", d[Filename(team_id)]>> ELSE NoFile

\* a directory with the file of team_id, if d has it, and no other file
OnlyFileOf(d, team_id) ==
    [f \in {Filename(team_id)} \cap DOMAIN d |-> d[f]]

\* C21: two team ids never have the same file; a save to a team id,
\* completed or failed, leaves the file of every other team id, or its
\* absence, as it was; and what a load or a compare of a team id gives is
\* what it gives with the file of that id alone in the directory.
TeamsIndependent ==
    [][/\ \A a, b \in TeamIds : a # b => Filename(a) # Filename(b)
       /\ call'.op = "save"
             => \A id \in TeamIds \ {call'.id} : FileOf(disk', id) = FileOf(disk, id)
       /\ call'.op = "load"
             => call'.ret = LoadResult(OnlyFileOf(disk, call'.id), call'.id, call'.env)
       /\ call'.op = "compare"
             => call'.ret = CompareResult(OnlyFileOf(disk, call'.id), call'.id,
                                          call'.arg, call'.env)]_vars

\* a save to team 2 failed part-way while team 1 had a snapshot stored,
\* and the file of team 1 still holds that snapshot
TeamsIndependentWitness ==
    /\ call.op = "save"
    /\ call.id = 2
    /\ call.env = EnvWriteFails(MaxPartial)
    /\ call.arg = ListV(<<Full, Base("B")>>)
    /\ lastSave[1] = SavedOk(ListV(<<Full>>))
    /\ FileOf(disk, 1) = <<"file", JsonDump(ListV(<<Full>>))>>
    /\ FileOf(disk, 2) # FileOf(disk, 1)

====
